---- MODULE Spec2Model ----
(***************************************************************************)
(* The IBEX-35 factor-model script (src/main.py) as a state machine: one   *)
(* action per statement group of the script, in program order.  Tables     *)
(* (pandas DataFrames) are functions from index labels to rows, a row is a *)
(* function from column names to cells, a cell is NaN or an exact          *)
(* rational <<numerator, denominator>>.  Dates are <<month, day>> with     *)
(* month = 12 * year + (calendar month - 1).                               *)
(***************************************************************************)
EXTENDS Integers, Sequences, FiniteSets, TLC

VARIABLES pc, err, i, file, data, prices, monthly_prices, monthly_returns,
          ff, stock_returns, index_returns, data_merged,
          excess_stock_returns, excess_ibex, valid_stocks,
          capm_results, capm_df, ff_results, ff_df, price_plot, jointplots

vars == <<pc, err, i, file, data, prices, monthly_prices, monthly_returns,
          ff, stock_returns, index_returns, data_merged,
          excess_stock_returns, excess_ibex, valid_stocks,
          capm_results, capm_df, ff_results, ff_df, price_plot, jointplots>>

(***************************************************************************)
(* Bounds of the model.                                                    *)
(***************************************************************************)
NumStocks == 2
NumMonths == 3
DaysPerMonth == 2
MaxRows == 2
MaxPanelRows == 3

(***************************************************************************)
(* Values.                                                                 *)
(***************************************************************************)
\* A name the script has not assigned yet.
None == <<>>
\* The missing value: it equals no rational <<n, d>> with d > 0.
NaN == <<0, 0>>

Abs(n) == IF n < 0 THEN -n ELSE n

RECURSIVE GCD(_, _)
GCD(a, b) == IF b = 0 THEN a ELSE GCD(b, a % b)

LCM(a, b) == (a \div GCD(a, b)) * b

Rat(n, d) ==
    LET g == GCD(Abs(n), Abs(d))
        s == IF d < 0 THEN -1 ELSE 1
    IN  <<s * (n \div g), s * (d \div g)>>

Zero == Rat(0, 1)
One == Rat(1, 1)

IsNum(x) == x # NaN

\* Sums go over the least common denominator and products cancel across
\* before multiplying, so that no intermediate exceeds the result's scale.
Add(x, y) ==
    IF IsNum(x) /\ IsNum(y)
    THEN LET l == LCM(x[2], y[2])
         IN  Rat(x[1] * (l \div x[2]) + y[1] * (l \div y[2]), l)
    ELSE NaN

Sub(x, y) ==
    IF IsNum(x) /\ IsNum(y)
    THEN LET l == LCM(x[2], y[2])
         IN  Rat(x[1] * (l \div x[2]) - y[1] * (l \div y[2]), l)
    ELSE NaN

Mul(x, y) ==
    IF IsNum(x) /\ IsNum(y)
    THEN LET g == GCD(Abs(x[1]), y[2])
             h == GCD(Abs(y[1]), x[2])
         IN  Rat((x[1] \div g) * (y[1] \div h), (x[2] \div h) * (y[2] \div g))
    ELSE NaN

\* 0/0 is NaN as in floating point; a non-zero value over zero does not
\* occur (prices are positive).
Div(x, y) ==
    IF IsNum(x) /\ IsNum(y) /\ y[1] # 0
    THEN Mul(x, Rat(y[2], y[1]))
    ELSE NaN

\* Dates in calendar order.
DateLeq(a, b) == a[1] < b[1] \/ (a[1] = b[1] /\ a[2] <= b[2])

MinDate(S) == CHOOSE a \in S : \A b \in S : DateLeq(a, b)
MaxDate(S) == CHOOSE a \in S : \A b \in S : DateLeq(b, a)

MonthStart(m) == <<m, 1>>
MonthEnd(m) == <<m, DaysPerMonth>>

Range(s) == {s[k] : k \in DOMAIN s}

Column(df, c) == [d \in DOMAIN df |-> df[d][c]]

(***************************************************************************)
(* 1. Settings.                                                            *)
(***************************************************************************)
ConfiguredStocks == <<"BKT.MC", "ENG.MC", "ANA.MC", "COL.MC", "LOG.MC">>
stocks == SubSeq(ConfiguredStocks, 1, NumStocks)
index_ticker == "^IBEX"
all_tickers == stocks \o <<index_ticker>>
Tickers == Range(all_tickers)

TickerNo(t) == CHOOSE k \in DOMAIN all_tickers : all_tickers[k] = t

\* The months of the download window; the window opens in January 2023.
WindowStart == 2023 * 12
Months == WindowStart .. (WindowStart + NumMonths - 1)
TradingDays == {<<m, d>> : m \in Months, d \in 1 .. DaysPerMonth}

(***************************************************************************)
(* 2. The downloaded Close table.  A quote is 1 or 2; a hole is a ticker   *)
(* without a price on one day, in one month, or in the whole window.       *)
(***************************************************************************)
Seeds == {0, 1}

Quote(seed, t, day) == Rat(1 + ((seed * TickerNo(t) + day[1] + day[2]) % 2), 1)

Holes ==
    {<<t, "window">> : t \in Tickers}
    \cup {<<t, "month", m>> : t \in Tickers, m \in Months}
    \cup {<<t, "day", m, d>> : t \in Tickers, m \in Months, d \in 1 .. DaysPerMonth}

Quoted(holes, t, day) ==
    ~ \E h \in holes :
        /\ h[1] = t
        /\ \/ h[2] = "window"
           \/ h[2] = "month" /\ h[3] = day[1]
           \/ h[2] = "day" /\ h[3] = day[1] /\ h[4] = day[2]

CloseTable(seed, holes) ==
    LET days == {day \in TradingDays : \E t \in Tickers : Quoted(holes, t, day)}
    IN  [day \in days |->
            [t \in Tickers |->
                IF Quoted(holes, t, day) THEN Quote(seed, t, day) ELSE NaN]]

NoData(S) == {<<t, "window">> : t \in S}

\* What a download returns: any set of tickers comes without data, or one
\* ticker lacks one month.
DownloadHoles ==
    {NoData(S) : S \in SUBSET Tickers}
    \cup {{<<t, "month", m>>} : t \in Tickers, m \in Months}

(***************************************************************************)
(* DataFrame.dropna(): rows with a missing value in any column go.         *)
(***************************************************************************)
IsComplete_howAll(row) == \E c \in DOMAIN row : row[c] # NaN

IsComplete(row) == \A c \in DOMAIN row : row[c] # NaN

DropNa_skipped(df) == df

DropNa(df) ==
    LET keep == {d \in DOMAIN df : IsComplete(df[d])}
    IN  [d \in keep |-> df[d]]

(***************************************************************************)
(* 3. Monthly returns.                                                     *)
(***************************************************************************)
\* resample("M"): one bin per calendar month from the first to the last
\* month with a row, labelled with the month's end; last() is the last
\* non-missing entry of each column in the bin.
BinMonths(df) ==
    IF DOMAIN df = {} THEN {}
    ELSE MinDate(DOMAIN df)[1] .. MaxDate(DOMAIN df)[1]

PickInBin_first(df, m, c) ==
    LET have == {d \in DOMAIN df : d[1] = m /\ df[d][c] # NaN}
    IN  IF have = {} THEN NaN ELSE df[MinDate(have)][c]

PickInBin(df, m, c) ==
    LET have == {d \in DOMAIN df : d[1] = m /\ df[d][c] # NaN}
    IN  IF have = {} THEN NaN ELSE df[MaxDate(have)][c]

ResampleLast(df, cols) ==
    [e \in {MonthEnd(m) : m \in BinMonths(df)} |->
        [c \in cols |-> PickInBin(df, e[1], c)]]

\* pct_change() with its default fill_method="pad": every column is
\* forward-filled, then each row is divided by the row before it, minus 1;
\* the first row has no predecessor.
RECURSIVE Padded(_, _, _)
Padded(df, d, c) ==
    IF df[d][c] # NaN THEN df[d][c]
    ELSE LET before == {b \in DOMAIN df : b # d /\ DateLeq(b, d)}
         IN  IF before = {} THEN NaN ELSE Padded(df, MaxDate(before), c)

PctChange(df) ==
    [d \in DOMAIN df |->
        [c \in DOMAIN df[d] |->
            LET before == {b \in DOMAIN df : b # d /\ DateLeq(b, d)}
            IN  IF before = {} THEN NaN
                ELSE Sub(Div(Padded(df, d, c), Padded(df, MaxDate(before), c)),
                         One)]]

\* index.to_period("M").to_timestamp(): month end to month start.
ToMonthStart(df) ==
    [s \in {MonthStart(d[1]) : d \in DOMAIN df} |->
        df[CHOOSE d \in DOMAIN df : d[1] = s[1]]]

(***************************************************************************)
(* 4. The factor file data/Europe_3_Factors.csv.  A file is a sequence of  *)
(* lines, a data line a sequence of fields, a field a sequence of          *)
(* characters.                                                             *)
(***************************************************************************)
SkipRows == 6

FactorCols == {"Mkt-RF", "SMB", "HML", "RF"}
Header == <<"", "Mkt-RF", "SMB", "HML", "RF">>
Preamble == [k \in 1 .. SkipRows |-> <<>>]

Digits == <<"0", "1", "2", "3", "4", "5", "6", "7", "8", "9">>
IsDigit(c) == c \in Range(Digits)
DigitVal(c) == (CHOOSE k \in DOMAIN Digits : Digits[k] = c) - 1

RECURSIVE NumeralVal(_)
NumeralVal(s) ==
    IF s = <<>> THEN 0
    ELSE 10 * NumeralVal(SubSeq(s, 1, Len(s) - 1)) + DigitVal(s[Len(s)])

RECURSIVE Pow10(_)
Pow10(n) == IF n = 0 THEN 1 ELSE 10 * Pow10(n - 1)

\* str.strip(): leading and trailing blanks go.
RECURSIVE Strip(_)
Strip(s) ==
    IF s # <<>> /\ s[1] = " " THEN Strip(Tail(s))
    ELSE IF s # <<>> /\ s[Len(s)] = " " THEN Strip(SubSeq(s, 1, Len(s) - 1))
    ELSE s

\* read_csv(skiprows=6): the line after the skipped ones names the columns,
\* the first column is renamed "Date" and its tokens are stripped.
ReadCsv(f) ==
    LET names == [k \in DOMAIN Header |-> IF k = 1 THEN "Date" ELSE f[SkipRows + 1][k]]
        line(n) == f[SkipRows + 1 + n]
    IN  [n \in 1 .. (Len(f) - SkipRows - 1) |->
            [c \in Range(names) |->
                LET k == CHOOSE j \in DOMAIN names : names[j] = c
                IN  IF c = "Date" THEN Strip(line(n)[k]) ELSE line(n)[k]]]

\* str.match(r'^\d{6}$')
IsYYYYMM(s) == Len(s) = 6 /\ \A k \in DOMAIN s : IsDigit(s[k])

\* to_datetime(format="%Y%m"): four digits of year, then a month 01..12;
\* any other month raises.
ParsesAsYm(s) == NumeralVal(SubSeq(s, 5, 6)) \in 1 .. 12

YmToMonth(s) == 12 * NumeralVal(SubSeq(s, 1, 4)) + NumeralVal(SubSeq(s, 5, 6)) - 1

\* to_numeric(errors="coerce"): an optional sign, digits, an optional
\* decimal point; anything else becomes NaN.
ToNumeric(s) ==
    LET body == IF s # <<>> /\ s[1] = "-" THEN Tail(s) ELSE s
        dots == {k \in DOMAIN body : body[k] = "."}
        p    == IF dots = {} THEN Len(body) + 1 ELSE CHOOSE k \in dots : TRUE
        ip   == SubSeq(body, 1, p - 1)
        fp   == SubSeq(body, p + 1, Len(body))
        ok   == /\ Cardinality(dots) <= 1
                /\ ip \o fp # <<>>
                /\ \A k \in DOMAIN (ip \o fp) : IsDigit((ip \o fp)[k])
        mag  == Rat(NumeralVal(ip \o fp), Pow10(Len(fp)))
    IN  IF ~ok THEN NaN
        ELSE IF body # s THEN Sub(Zero, mag) ELSE mag

Percent(x) == Div(x, Rat(100, 1))

\* The year-month token of a month, and the file built from data lines.
Token(m) ==
    LET y == m \div 12
        k == (m % 12) + 1
    IN  <<Digits[(y \div 1000) + 1], Digits[((y \div 100) % 10) + 1],
          Digits[((y \div 10) % 10) + 1], Digits[(y % 10) + 1],
          Digits[(k \div 10) + 1], Digits[(k % 10) + 1]>>

FileOf(lines) == Preamble \o <<Header>> \o lines

(***************************************************************************)
(* The factor files the model reads.                                       *)
(***************************************************************************)
\* Factor months: the months that have a return, and the two after them.
FFMonths == (WindowStart + 1) .. (WindowStart + NumMonths + 1)

FactorFields(m) ==
    <<<<"1", "0", "0">>, <<"-", "5", "0">>, <<"0">>,
      IF m % 2 = 0 THEN <<"0">> ELSE <<"5", "0">>>>

FactorLine(m) == <<Token(m)>> \o FactorFields(m)

RECURSIVE ChronologicalLines(_)
ChronologicalLines(S) ==
    IF S = {} THEN <<>>
    ELSE LET m == CHOOSE a \in S : \A b \in S : a <= b
         IN  <<FactorLine(m)>> \o ChronologicalLines(S \ {m})

\* A chronological file of monthly lines, as published; possibly with a
\* line of the annual section (a four-digit token), a line whose token has
\* month 13, a field that is no number, or a repeated line.
Anomalies == {"none", "annual", "month13", "unparsable", "repeated"}

FactorFile(S, a) ==
    LET lines == ChronologicalLines(S)
        m1    == CHOOSE m \in S : \A b \in S : m <= b
    IN  FileOf(
          CASE a = "annual" ->
                 lines \o <<<<<<"2", "0", "2", "3">>>> \o FactorFields(0)>>
            [] a = "month13" ->
                 lines \o <<<<<<"2", "0", "2", "3", "1", "3">>>> \o FactorFields(0)>>
            [] a = "unparsable" /\ S # {} ->
                 <<<<Token(m1), <<"1", "0", "0">>, <<"0">>, <<"x">>, <<"0">>>>>>
                 \o Tail(lines)
            [] a = "repeated" /\ S # {} -> lines \o <<lines[1]>>
            [] OTHER -> lines)

FactorFiles == {FactorFile(S, a) : S \in SUBSET FFMonths, a \in Anomalies}

\* Arbitrary files of at most MaxRows data lines: well-formed, padded,
\* short, dashed and out-of-calendar tokens; numeric, unparsable and empty
\* fields.
LoaderTokens ==
    {Token(WindowStart + 1), Token(WindowStart + 2),
     <<" ", "2", "0", "2", "3", "0", "4", " ">>,
     <<"2", "0", "2", "3", "1">>,
     <<"2", "0", "2", "3", "-", "0", "1">>,
     <<"2", "0", "2", "3", "1", "3">>,
     <<"2", "0", "2", "3", "0", "0">>}

LoaderFields ==
    {<<<<"1", ".", "2">>, <<"-", "0", ".", "5">>, <<"0", ".", "2", "5">>, <<"0", ".", "1">>>>,
     <<<<"1", ".", "2">>, <<"-", "0", ".", "5">>, <<"x">>, <<"0", ".", "1">>>>,
     <<<<"3">>, <<"0">>, <<"-", "9", "9", ".", "9", "9">>, <<>>>>}

LoaderLines == {<<t>> \o f : t \in LoaderTokens, f \in LoaderFields}

RECURSIVE SeqsUpTo(_, _)
SeqsUpTo(S, n) ==
    IF n = 0 THEN {<<>>}
    ELSE LET shorter == SeqsUpTo(S, n - 1)
         IN  shorter \cup {Append(q, x) : q \in shorter, x \in S}

LoaderFiles == {FileOf(lines) : lines \in SeqsUpTo(LoaderLines, MaxRows)}

(***************************************************************************)
(* 5-7. Alignment, merge, excess returns, valid stocks.                    *)
(***************************************************************************)
SelectCols(df, cols) == [d \in DOMAIN df |-> [c \in cols |-> df[d][c]]]

\* df.loc[lo:hi] on a sorted date index: both ends included.
LocRange_unclamped(df, lo, hi) == df

LocRange(df, lo, hi) ==
    [d \in {a \in DOMAIN df : DateLeq(lo, a) /\ DateLeq(a, hi)} |-> df[d]]

FFIndex(f) == {f[k].index : k \in DOMAIN f}

HasRepeatedIndex(f) == \E j, k \in DOMAIN f : j # k /\ f[j].index = f[k].index

\* concat(axis=1): the union of the three indexes; a cell whose table has
\* no row for the date is missing.
Concat(sr, ir, f) ==
    [d \in DOMAIN sr \cup DOMAIN ir \cup FFIndex(f) |->
        [c \in Range(stocks) \cup {"IBEX"} \cup FactorCols |->
            IF c \in FactorCols
            THEN IF d \in FFIndex(f)
                 THEN f[CHOOSE k \in DOMAIN f : f[k].index = d].row[c]
                 ELSE NaN
            ELSE IF c = "IBEX"
            THEN IF d \in DOMAIN ir THEN ir[d] ELSE NaN
            ELSE IF d \in DOMAIN sr THEN sr[d][c] ELSE NaN]]

ExcessOver_raw(x, rf) == x

ExcessOver(x, rf) == Sub(x, rf)

HasValue(excess, s) == \E d \in DOMAIN excess : excess[d][s] # NaN

ValidStocksOf_unfiltered(excess) == stocks

ValidStocksOf(excess) == SelectSeq(stocks, LAMBDA s : HasValue(excess, s))

(***************************************************************************)
(* 8. Ordinary least squares of y on a constant and x (statsmodels OLS,    *)
(* fitted with the pseudo-inverse), in exact arithmetic: the observations  *)
(* are brought to a common denominator L and the normal equations solved   *)
(* in integers.                                                            *)
(***************************************************************************)
RECURSIVE SumOver(_, _)
SumOver(D, f) ==
    IF D = {} THEN 0
    ELSE LET d == CHOOSE a \in D : TRUE
         IN  f[d] + SumOver(D \ {d}, f)

RECURSIVE LcmOver(_, _)
LcmOver(D, f) ==
    IF D = {} THEN 1
    ELSE LET d == CHOOSE a \in D : TRUE
         IN  LCM(f[d][2], LcmOver(D \ {d}, f))

OLS(y, x) ==
    LET D    == DOMAIN x
        n    == Cardinality(D)
        L    == LCM(LcmOver(D, x), LcmOver(D, y))
        X    == [d \in D |-> x[d][1] * (L \div x[d][2])]
        Y    == [d \in D |-> y[d][1] * (L \div y[d][2])]
        SX   == SumOver(D, X)
        SY   == SumOver(D, Y)
        SXX  == SumOver(D, [d \in D |-> X[d] * X[d]])
        SXY  == SumOver(D, [d \in D |-> X[d] * Y[d]])
        SYY  == SumOver(D, [d \in D |-> Y[d] * Y[d]])
        B    == n * SXX - SX * SX
        A    == n * SXY - SX * SY
        C    == n * SYY - SY * SY
        \* centered total sum of squares, sum of (y - mean(y))^2
        tss  == Rat(C, n * L * L)
        \* full rank: residual of row d times n * B * L
        E    == [d \in D |-> n * B * Y[d] - (B * SY - A * SX) - n * A * X[d]]
        ssr  == Div(Rat(SumOver(D, [d \in D |-> E[d] * E[d]]), n * B * L),
                    Rat(n * B * L, 1))
        \* rank one (x is the same number c on every row): the minimum-norm
        \* solution mean(y) / (1 + c^2) * (1, c), which fits mean(y)
        c    == x[CHOOSE d \in D : TRUE]
        a1   == Div(Rat(SY, n * L), Add(One, Mul(c, c)))
    IN  IF D = {} \/ \E d \in D : x[d] = NaN \/ y[d] = NaN
        THEN [const |-> NaN, slope |-> NaN, rsquared |-> NaN]
        ELSE IF B # 0
        THEN [const |-> Rat(B * SY - A * SX, n * B * L),
              slope |-> Rat(A, B),
              rsquared |-> Sub(One, Div(ssr, tss))]
        ELSE [const |-> a1,
              slope |-> Mul(c, a1),
              rsquared |-> Sub(One, Div(tss, tss))]

\* A t statistic is its estimate over a standard error (a square root);
\* the model records the estimate it belongs to.
TValue(estimate) == <<"t", estimate>>

CapmRow(s, model) ==
    [Stock |-> s,
     Alpha |-> model.const,
     Beta_IBEX |-> model.slope,
     Alpha_t |-> TValue(model.const),
     Beta_t |-> TValue(model.slope),
     R2 |-> model.rsquared]

\* 9. The three-factor fit: its estimates are not computed by the model,
\* each is recorded by the name of its regressor.
FF3Estimate(s, name) == <<"OLS3", s, name>>

FF3Row_withT(s) ==
    [Stock |-> s,
     Alpha |-> FF3Estimate(s, "const"),
     Beta_IBEX |-> FF3Estimate(s, "EX_IBEX"),
     SMB_coef |-> FF3Estimate(s, "SMB"),
     HML_coef |-> FF3Estimate(s, "HML"),
     Alpha_t |-> TValue(FF3Estimate(s, "const")),
     Beta_t |-> TValue(FF3Estimate(s, "EX_IBEX")),
     R2 |-> FF3Estimate(s, "rsquared")]

FF3Row(s) ==
    [Stock |-> s,
     Alpha |-> FF3Estimate(s, "const"),
     Beta_IBEX |-> FF3Estimate(s, "EX_IBEX"),
     SMB_coef |-> FF3Estimate(s, "SMB"),
     HML_coef |-> FF3Estimate(s, "HML"),
     R2 |-> FF3Estimate(s, "rsquared")]

\* results.append(row)
AppendRow_front(results, row) == <<row>> \o results

AppendRow(results, row) == Append(results, row)

\* 11. The points of one scatter chart.
JointplotPoints(sr, ir, s) ==
    DropNa([d \in DOMAIN sr \cup DOMAIN ir |->
              [c \in {s, "IBEX"} |->
                  IF c = "IBEX"
                  THEN IF d \in DOMAIN ir THEN ir[d] ELSE NaN
                  ELSE IF d \in DOMAIN sr THEN sr[d][s] ELSE NaN]])

(***************************************************************************)
(* The script, statement group by statement group.  pc names the group to  *)
(* run next; err names the statement that raised.                          *)
(***************************************************************************)
Start(f) ==
    /\ pc = "download"
    /\ err = "none"
    /\ i = 0
    /\ file = f
    /\ data = None /\ prices = None
    /\ monthly_prices = None /\ monthly_returns = None
    /\ ff = None /\ stock_returns = None /\ index_returns = None
    /\ data_merged = None
    /\ excess_stock_returns = None /\ excess_ibex = None
    /\ valid_stocks = None
    /\ capm_results = None /\ capm_df = None
    /\ ff_results = None /\ ff_df = None
    /\ price_plot = None /\ jointplots = None

Init == \E f \in FactorFiles : Start(f)

Raise(stmt) ==
    /\ pc' = "raised"
    /\ err' = stmt

\* lines 31-36: yf.download
Download ==
    /\ pc = "download"
    /\ \E seed \in Seeds, holes \in DownloadHoles : data' = CloseTable(seed, holes)
    /\ pc' = "prices"
    /\ UNCHANGED <<err, i, file, prices, monthly_prices, monthly_returns, ff,
                   stock_returns, index_returns, data_merged,
                   excess_stock_returns, excess_ibex, valid_stocks,
                   capm_results, capm_df, ff_results, ff_df, price_plot,
                   jointplots>>

\* line 38
Prices ==
    /\ pc = "prices"
    /\ prices' = DropNa(data)
    /\ pc' = "resample"
    /\ UNCHANGED <<err, i, file, data, monthly_prices, monthly_returns, ff,
                   stock_returns, index_returns, data_merged,
                   excess_stock_returns, excess_ibex, valid_stocks,
                   capm_results, capm_df, ff_results, ff_df, price_plot,
                   jointplots>>

\* line 46
Resample ==
    /\ pc = "resample"
    /\ monthly_prices' = ResampleLast(prices, Tickers)
    /\ pc' = "pct_change"
    /\ UNCHANGED <<err, i, file, data, prices, monthly_returns, ff,
                   stock_returns, index_returns, data_merged,
                   excess_stock_returns, excess_ibex, valid_stocks,
                   capm_results, capm_df, ff_results, ff_df, price_plot,
                   jointplots>>

\* line 47
PctChangeDropNa ==
    /\ pc = "pct_change"
    /\ monthly_returns' = DropNa(PctChange(monthly_prices))
    /\ pc' = "to_month_start"
    /\ UNCHANGED <<err, i, file, data, prices, monthly_prices, ff,
                   stock_returns, index_returns, data_merged,
                   excess_stock_returns, excess_ibex, valid_stocks,
                   capm_results, capm_df, ff_results, ff_df, price_plot,
                   jointplots>>

\* line 50
Relabel ==
    /\ pc = "to_month_start"
    /\ monthly_returns' = ToMonthStart(monthly_returns)
    /\ pc' = "read_csv"
    /\ UNCHANGED <<err, i, file, data, prices, monthly_prices, ff,
                   stock_returns, index_returns, data_merged,
                   excess_stock_returns, excess_ibex, valid_stocks,
                   capm_results, capm_df, ff_results, ff_df, price_plot,
                   jointplots>>

\* lines 59-62
ReadFactors ==
    /\ pc = "read_csv"
    /\ ff' = ReadCsv(file)
    /\ pc' = "match"
    /\ UNCHANGED <<err, i, file, data, prices, monthly_prices, monthly_returns,
                   stock_returns, index_returns, data_merged,
                   excess_stock_returns, excess_ibex, valid_stocks,
                   capm_results, capm_df, ff_results, ff_df, price_plot,
                   jointplots>>

\* line 65
KeepYYYYMM ==
    /\ pc = "match"
    /\ ff' = SelectSeq(ff, LAMBDA r : IsYYYYMM(r["Date"]))
    /\ pc' = "to_datetime"
    /\ UNCHANGED <<err, i, file, data, prices, monthly_prices, monthly_returns,
                   stock_returns, index_returns, data_merged,
                   excess_stock_returns, excess_ibex, valid_stocks,
                   capm_results, capm_df, ff_results, ff_df, price_plot,
                   jointplots>>

\* lines 66-73: the tokens become month starts and the index; the four
\* factor columns stay.
ToDatetime ==
    /\ pc = "to_datetime"
    /\ \A k \in DOMAIN ff : ParsesAsYm(ff[k]["Date"])
    /\ ff' = [k \in DOMAIN ff |->
                [index |-> MonthStart(YmToMonth(ff[k]["Date"])),
                 row |-> [c \in FactorCols |-> ff[k][c]]]]
    /\ pc' = "to_numeric"
    /\ UNCHANGED <<err, i, file, data, prices, monthly_prices, monthly_returns,
                   stock_returns, index_returns, data_merged,
                   excess_stock_returns, excess_ibex, valid_stocks,
                   capm_results, capm_df, ff_results, ff_df, price_plot,
                   jointplots>>

\* line 66 on a six-digit token that is no year and month: ValueError
ToDatetimeRaises ==
    /\ pc = "to_datetime"
    /\ \E k \in DOMAIN ff : ~ParsesAsYm(ff[k]["Date"])
    /\ Raise("to_datetime")
    /\ UNCHANGED <<i, file, data, prices, monthly_prices, monthly_returns, ff,
                   stock_returns, index_returns, data_merged,
                   excess_stock_returns, excess_ibex, valid_stocks,
                   capm_results, capm_df, ff_results, ff_df, price_plot,
                   jointplots>>

\* lines 76-77
FactorsToNumeric ==
    /\ pc = "to_numeric"
    /\ ff' = [k \in DOMAIN ff |->
                [index |-> ff[k].index,
                 row |-> [c \in FactorCols |-> ToNumeric(ff[k].row[c])]]]
    /\ pc' = "scale"
    /\ UNCHANGED <<err, i, file, data, prices, monthly_prices, monthly_returns,
                   stock_returns, index_returns, data_merged,
                   excess_stock_returns, excess_ibex, valid_stocks,
                   capm_results, capm_df, ff_results, ff_df, price_plot,
                   jointplots>>

\* lines 79-80
FactorsDropNaScale ==
    /\ pc = "scale"
    /\ LET kept == SelectSeq(ff, LAMBDA r : IsComplete(r.row))
       IN  ff' = [k \in DOMAIN kept |->
                    [index |-> kept[k].index,
                     row |-> [c \in FactorCols |-> Percent(kept[k].row[c])]]]
    /\ pc' = "align"
    /\ UNCHANGED <<err, i, file, data, prices, monthly_prices, monthly_returns,
                   stock_returns, index_returns, data_merged,
                   excess_stock_returns, excess_ibex, valid_stocks,
                   capm_results, capm_df, ff_results, ff_df, price_plot,
                   jointplots>>

\* lines 87-92, with at least one factor row
Align ==
    /\ pc = "align"
    /\ ff # <<>>
    /\ LET lo == MinDate(FFIndex(ff))
           hi == MaxDate(FFIndex(ff))
       IN  /\ stock_returns' =
                LocRange(SelectCols(monthly_returns, Range(stocks)), lo, hi)
           /\ index_returns' =
                LocRange(Column(monthly_returns, index_ticker), lo, hi)
    /\ pc' = "merge"
    /\ UNCHANGED <<err, i, file, data, prices, monthly_prices, monthly_returns,
                   ff, data_merged, excess_stock_returns, excess_ibex,
                   valid_stocks, capm_results, capm_df, ff_results, ff_df,
                   price_plot, jointplots>>

\* lines 87-92 without a factor row: min() and max() of the empty index
\* are NaT, and the slice from NaT to NaT selects no row ...
AlignOnNaT ==
    /\ pc = "align"
    /\ ff = <<>>
    /\ stock_returns' = <<>>
    /\ index_returns' = <<>>
    /\ pc' = "merge"
    /\ UNCHANGED <<err, i, file, data, prices, monthly_prices, monthly_returns,
                   ff, data_merged, excess_stock_returns, excess_ibex,
                   valid_stocks, capm_results, capm_df, ff_results, ff_df,
                   price_plot, jointplots>>

\* ... or, depending on the pandas release, is refused as a slice bound.
AlignOnNaTRaises ==
    /\ pc = "align"
    /\ ff = <<>>
    /\ Raise("loc")
    /\ UNCHANGED <<i, file, data, prices, monthly_prices, monthly_returns, ff,
                   stock_returns, index_returns, data_merged,
                   excess_stock_returns, excess_ibex, valid_stocks,
                   capm_results, capm_df, ff_results, ff_df, price_plot,
                   jointplots>>

\* lines 102-105
Merge ==
    /\ pc = "merge"
    /\ ~HasRepeatedIndex(ff)
    /\ data_merged' = DropNa(Concat(stock_returns, index_returns, ff))
    /\ pc' = "excess"
    /\ UNCHANGED <<err, i, file, data, prices, monthly_prices, monthly_returns,
                   ff, stock_returns, index_returns, excess_stock_returns,
                   excess_ibex, valid_stocks, capm_results, capm_df,
                   ff_results, ff_df, price_plot, jointplots>>

\* line 102 when a factor date occurs twice: concat cannot reindex
MergeRaises ==
    /\ pc = "merge"
    /\ HasRepeatedIndex(ff)
    /\ Raise("concat")
    /\ UNCHANGED <<i, file, data, prices, monthly_prices, monthly_returns, ff,
                   stock_returns, index_returns, data_merged,
                   excess_stock_returns, excess_ibex, valid_stocks,
                   capm_results, capm_df, ff_results, ff_df, price_plot,
                   jointplots>>

\* lines 110-113
Excess ==
    /\ pc = "excess"
    /\ excess_stock_returns' =
         [d \in DOMAIN data_merged |->
            [s \in Range(stocks) |->
                ExcessOver(data_merged[d][s], data_merged[d]["RF"])]]
    /\ excess_ibex' =
         [d \in DOMAIN data_merged |->
            ExcessOver(data_merged[d]["IBEX"], data_merged[d]["RF"])]
    /\ pc' = "valid_stocks"
    /\ UNCHANGED <<err, i, file, data, prices, monthly_prices, monthly_returns,
                   ff, stock_returns, index_returns, data_merged, valid_stocks,
                   capm_results, capm_df, ff_results, ff_df, price_plot,
                   jointplots>>

\* lines 118-128
ValidStocks ==
    /\ pc = "valid_stocks"
    /\ valid_stocks' = ValidStocksOf(excess_stock_returns)
    /\ excess_stock_returns' =
         SelectCols(excess_stock_returns, Range(valid_stocks'))
    /\ stock_returns' = SelectCols(stock_returns, Range(valid_stocks'))
    /\ capm_results' = <<>>
    /\ i' = 1
    /\ pc' = "capm"
    /\ UNCHANGED <<err, file, data, prices, monthly_prices, monthly_returns,
                   ff, index_returns, data_merged, excess_ibex, capm_df,
                   ff_results, ff_df, price_plot, jointplots>>

\* lines 130-148, one turn of the loop
CapmFit ==
    /\ pc = "capm"
    /\ i <= Len(valid_stocks)
    /\ LET s     == valid_stocks[i]
           model == OLS(Column(excess_stock_returns, s), excess_ibex)
       IN  capm_results' = AppendRow(capm_results, CapmRow(s, model))
    /\ i' = i + 1
    /\ UNCHANGED <<pc, err, file, data, prices, monthly_prices, monthly_returns,
                   ff, stock_returns, index_returns, data_merged,
                   excess_stock_returns, excess_ibex, valid_stocks, capm_df,
                   ff_results, ff_df, price_plot, jointplots>>

\* lines 150-158
CapmSave ==
    /\ pc = "capm"
    /\ i > Len(valid_stocks)
    /\ capm_df' = capm_results
    /\ ff_results' = <<>>
    /\ i' = 1
    /\ pc' = "ff3"
    /\ UNCHANGED <<err, file, data, prices, monthly_prices, monthly_returns,
                   ff, stock_returns, index_returns, data_merged,
                   excess_stock_returns, excess_ibex, valid_stocks,
                   capm_results, ff_df, price_plot, jointplots>>

\* lines 160-179, one turn of the loop
FF3Fit ==
    /\ pc = "ff3"
    /\ i <= Len(valid_stocks)
    /\ ff_results' = AppendRow(ff_results, FF3Row(valid_stocks[i]))
    /\ i' = i + 1
    /\ UNCHANGED <<pc, err, file, data, prices, monthly_prices, monthly_returns,
                   ff, stock_returns, index_returns, data_merged,
                   excess_stock_returns, excess_ibex, valid_stocks,
                   capm_results, capm_df, ff_df, price_plot, jointplots>>

\* lines 181-183
FF3Save ==
    /\ pc = "ff3"
    /\ i > Len(valid_stocks)
    /\ ff_df' = ff_results
    /\ pc' = "price_plot"
    /\ UNCHANGED <<err, i, file, data, prices, monthly_prices, monthly_returns,
                   ff, stock_returns, index_returns, data_merged,
                   excess_stock_returns, excess_ibex, valid_stocks,
                   capm_results, capm_df, ff_results, price_plot, jointplots>>

\* lines 189-206: one line per valid stock over the whole price history
PricePlot ==
    /\ pc = "price_plot"
    /\ price_plot' = [k \in DOMAIN valid_stocks |->
                        [label |-> valid_stocks[k],
                         line |-> Column(prices, valid_stocks[k])]]
    /\ jointplots' = <<>>
    /\ i' = 1
    /\ pc' = "jointplot"
    /\ UNCHANGED <<err, file, data, prices, monthly_prices, monthly_returns,
                   ff, stock_returns, index_returns, data_merged,
                   excess_stock_returns, excess_ibex, valid_stocks,
                   capm_results, capm_df, ff_results, ff_df>>

\* lines 207-225, one turn of the loop
Jointplot ==
    /\ pc = "jointplot"
    /\ i <= Len(valid_stocks)
    /\ LET s == valid_stocks[i]
       IN  jointplots' =
             Append(jointplots,
                    [stock |-> s,
                     points |-> JointplotPoints(stock_returns, index_returns, s)])
    /\ i' = i + 1
    /\ UNCHANGED <<pc, err, file, data, prices, monthly_prices, monthly_returns,
                   ff, stock_returns, index_returns, data_merged,
                   excess_stock_returns, excess_ibex, valid_stocks,
                   capm_results, capm_df, ff_results, ff_df, price_plot>>

\* lines 227-229
Complete ==
    /\ pc = "jointplot"
    /\ i > Len(valid_stocks)
    /\ pc' = "done"
    /\ UNCHANGED <<err, i, file, data, prices, monthly_prices, monthly_returns,
                   ff, stock_returns, index_returns, data_merged,
                   excess_stock_returns, excess_ibex, valid_stocks,
                   capm_results, capm_df, ff_results, ff_df, price_plot,
                   jointplots>>

Next ==
    \/ Download \/ Prices \/ Resample \/ PctChangeDropNa \/ Relabel
    \/ ReadFactors \/ KeepYYYYMM \/ ToDatetime \/ ToDatetimeRaises
    \/ FactorsToNumeric \/ FactorsDropNaScale
    \/ Align \/ AlignOnNaT \/ AlignOnNaTRaises \/ Merge \/ MergeRaises
    \/ Excess \/ ValidStocks \/ CapmFit \/ CapmSave \/ FF3Fit \/ FF3Save
    \/ PricePlot \/ Jointplot \/ Complete

Spec == Init /\ [][Next]_vars

(***************************************************************************)
(* The return builder alone (lines 38-50), on Close tables with up to two  *)
(* holes.                                                                  *)
(***************************************************************************)
InitReturns ==
    \E seed \in Seeds, h1, h2 \in Holes \cup {<<>>} :
        /\ pc = "prices"
        /\ err = "none"
        /\ i = 0
        /\ file = FactorFile(FFMonths, "none")
        /\ data = CloseTable(seed, {h1, h2} \ {<<>>})
        /\ prices = None
        /\ monthly_prices = None /\ monthly_returns = None
        /\ ff = None /\ stock_returns = None /\ index_returns = None
        /\ data_merged = None
        /\ excess_stock_returns = None /\ excess_ibex = None
        /\ valid_stocks = None
        /\ capm_results = None /\ capm_df = None
        /\ ff_results = None /\ ff_df = None
        /\ price_plot = None /\ jointplots = None

NextReturns == Prices \/ Resample \/ PctChangeDropNa \/ Relabel

SpecReturns == InitReturns /\ [][NextReturns]_vars

(***************************************************************************)
(* The factor loader alone (lines 59-80), on arbitrary files, after the    *)
(* return builder has run on a Close table without holes.                  *)
(***************************************************************************)
InitLoader ==
    \E f \in LoaderFiles :
        /\ pc = "read_csv"
        /\ err = "none"
        /\ i = 0
        /\ file = f
        /\ data = CloseTable(1, {})
        /\ prices = DropNa(data)
        /\ monthly_prices = ResampleLast(prices, Tickers)
        /\ monthly_returns = ToMonthStart(DropNa(PctChange(monthly_prices)))
        /\ ff = None /\ stock_returns = None /\ index_returns = None
        /\ data_merged = None
        /\ excess_stock_returns = None /\ excess_ibex = None
        /\ valid_stocks = None
        /\ capm_results = None /\ capm_df = None
        /\ ff_results = None /\ ff_df = None
        /\ price_plot = None /\ jointplots = None

NextLoader ==
    \/ ReadFactors \/ KeepYYYYMM \/ ToDatetime \/ ToDatetimeRaises
    \/ FactorsToNumeric \/ FactorsDropNaScale

SpecLoader == InitLoader /\ [][NextLoader]_vars

(***************************************************************************)
(* The CAPM regression alone (lines 110-151), on synthetic Merged Panels   *)
(* of up to MaxPanelRows rows: per row an index return and a risk-free     *)
(* rate in hundredths, per stock a law that gives its return.  The tables  *)
(* upstream of the panel are not read by these statements.                 *)
(***************************************************************************)
Laws == {"double", "same", "noisy"}

LawReturn(law, ibex, rf, k) ==
    CASE law = "double" -> Sub(Mul(Rat(2, 1), ibex), rf)
      [] law = "same" -> ibex
      [] law = "noisy" -> Add(Sub(Mul(Rat(2, 1), ibex), rf), Rat(k % 2, 100))

Panel(n, law, ibex, rf) ==
    [d \in {MonthStart(WindowStart + k) : k \in 1 .. n} |->
        [c \in Range(stocks) \cup {"IBEX"} \cup FactorCols |->
            LET k == d[1] - WindowStart
            IN  IF c = "IBEX" THEN ibex[k]
                ELSE IF c = "RF" THEN rf[k]
                ELSE IF c \in FactorCols THEN Rat(1, 100)
                ELSE LawReturn(law[c], ibex[k], rf[k], k)]]

InitCAPM ==
    \E n \in 1 .. MaxPanelRows :
      \E law \in [Range(stocks) -> Laws],
         ibex \in [1 .. n -> {Zero, Rat(2, 100)}],
         rf \in [1 .. n -> {Zero, Rat(1, 100)}] :
        /\ pc = "excess"
        /\ err = "none"
        /\ i = 0
        /\ file = None /\ data = None /\ prices = None
        /\ monthly_prices = None /\ monthly_returns = None
        /\ ff = None /\ stock_returns = None /\ index_returns = None
        /\ data_merged = Panel(n, law, ibex, rf)
        /\ excess_stock_returns = None /\ excess_ibex = None
        /\ valid_stocks = None
        /\ capm_results = None /\ capm_df = None
        /\ ff_results = None /\ ff_df = None
        /\ price_plot = None /\ jointplots = None

NextCAPM == Excess \/ ValidStocks \/ CapmFit \/ CapmSave

SpecCAPM == InitCAPM /\ [][NextCAPM]_vars

(***************************************************************************)
(* Properties.                                                             *)
(***************************************************************************)
AfterMerge == {"excess", "valid_stocks", "capm", "ff3", "price_plot", "jointplot", "done"}
AfterValid == {"capm", "ff3", "price_plot", "jointplot", "done"}

StockColumn(table) == [k \in DOMAIN table |-> table[k].Stock]
ChartStocks == [k \in DOMAIN jointplots |-> jointplots[k].stock]

HasData(t) == \E d \in DOMAIN data : data[d][t] # NaN
HasFullData(t) == \A d \in TradingDays : d \in DOMAIN data /\ data[d][t] # NaN
StocksWithData == SelectSeq(stocks, LAMBDA s : HasData(s))

\* C1: when some tickers have no price at all while the other tickers and
\* the index are fully quoted (and the factor file covers every month), the
\* valid stocks are exactly the stocks with data, and both tables and the
\* scatter charts have that many entries.
C1_OnlyEmptyTickersExcluded ==
    ( /\ pc = "done"
      /\ file = FactorFile(FFMonths, "none")
      /\ \E s \in Range(stocks) : ~HasData(s)
      /\ \A t \in Tickers : HasData(t) => HasFullData(t)
      /\ HasData(index_ticker) )
    => /\ valid_stocks = StocksWithData
       /\ Len(capm_df) = Len(StocksWithData)
       /\ Len(ff_df) = Len(StocksWithData)
       /\ Len(jointplots) = Len(StocksWithData)

\* The excess return of stock s on the panel row d, from the panel itself.
PanelExcess(d, s) == Sub(data_merged[d][s], data_merged[d]["RF"])
NoExcessValue(s) == \A d \in DOMAIN data_merged : PanelExcess(d, s) = NaN

\* C2: after a completed run the Stock column of the CAPM table, the Stock
\* column of the three-factor table and the sequence of scatter charts are
\* the valid-stock list, which keeps the order of the configured list; a
\* stock without any excess return on the panel is in none of them.
C2_TablesFollowValidStocks ==
    pc = "done" =>
        /\ StockColumn(capm_df) = valid_stocks
        /\ StockColumn(ff_df) = valid_stocks
        /\ ChartStocks = valid_stocks
        /\ valid_stocks = SelectSeq(stocks, LAMBDA s : s \in Range(valid_stocks))
        /\ \A s \in Range(stocks) :
              NoExcessValue(s) =>
                  /\ s \notin Range(StockColumn(capm_df))
                  /\ s \notin Range(StockColumn(ff_df))
                  /\ s \notin Range(ChartStocks)

C2_Witness ==
    /\ pc = "done"
    /\ Len(capm_df) >= 2
    /\ Len(jointplots) >= 2

ReturnDates == DOMAIN monthly_returns
AllReturnsPresent(d) ==
    d \in ReturnDates /\ \A t \in Tickers : monthly_returns[d][t] # NaN
AllFactorsPresent(d) ==
    \E k \in DOMAIN ff :
        ff[k].index = d /\ \A c \in FactorCols : ff[k].row[c] # NaN
InFactorRange(d) ==
    /\ ff # <<>>
    /\ DateLeq(MinDate(FFIndex(ff)), d)
    /\ DateLeq(d, MaxDate(FFIndex(ff)))
DisjointRanges ==
    /\ ReturnDates # {}
    /\ ff # <<>>
    /\ \/ ~DateLeq(MinDate(FFIndex(ff)), MaxDate(ReturnDates))
       \/ ~DateLeq(MinDate(ReturnDates), MaxDate(FFIndex(ff)))

\* C3: the Merged Panel holds a date exactly if the date lies in the
\* factor table's [min, max] range and every stock return, the index
\* return and the four factors are present for it; so every panel row is
\* complete, and disjoint date ranges give an empty panel.
C3_PanelIsCompleteIntersection ==
    pc \in AfterMerge =>
        /\ DOMAIN data_merged =
             {d \in ReturnDates \cup FFIndex(ff) :
                 InFactorRange(d) /\ AllReturnsPresent(d) /\ AllFactorsPresent(d)}
        /\ \A d \in DOMAIN data_merged :
              /\ DOMAIN data_merged[d] = Range(stocks) \cup {"IBEX"} \cup FactorCols
              /\ \A c \in DOMAIN data_merged[d] : data_merged[d][c] # NaN
        /\ DisjointRanges => data_merged = <<>>

C3_Witness ==
    /\ pc = "excess"
    /\ data_merged # <<>>
    /\ \E d \in ReturnDates : d \notin DOMAIN data_merged
    /\ \E d \in FFIndex(ff) : d \notin DOMAIN data_merged

\* The data lines of the file that the loader is said to keep.
FileTokens == [n \in 1 .. (Len(file) - SkipRows - 1) |-> file[SkipRows + 1 + n]]
SixDigitsAndNumbers(line) ==
    /\ Len(Strip(line[1])) = 6
    /\ \A k \in 1 .. 6 : IsDigit(Strip(line[1])[k])
    /\ \A k \in 2 .. 5 : ToNumeric(line[k]) # NaN

\* C4: for every file content the loader finishes without raising, and
\* its output holds exactly the rows whose stripped token is six digits and
\* whose four factor values parse.
C4_LoaderNeverRaises ==
    /\ err = "none"
    /\ pc = "align" =>
          Len(ff) = Len(SelectSeq(FileTokens, SixDigitsAndNumbers))

\* Observation of one ticker in the downloaded table.
ObservedMonths(t) == {d[1] : d \in {a \in DOMAIN data : data[a][t] # NaN}}
LastPrice(t, m) ==
    data[MaxDate({d \in DOMAIN data : d[1] = m /\ data[d][t] # NaN})][t]
PreviousIn(S, m) == CHOOSE q \in S : q < m /\ \A r \in S : r < m => r <= q
First(S) == CHOOSE m \in S : \A r \in S : m <= r
Last(S) == CHOOSE m \in S : \A r \in S : r <= m
SimpleReturn(p, q) == Div(Sub(p, q), q)

\* C5 as stated: every ticker with at least two months of prices gets one
\* return per observed month but the first, labelled with the month's first
\* day, from its own last prices of the month and of the previous observed
\* month, whatever the gaps and whatever the other tickers lack.
C5_ReturnsFromOwnLastPrices ==
    pc = "read_csv" =>
        \A t \in Tickers :
            Cardinality(ObservedMonths(t)) >= 2 =>
                /\ ReturnDates =
                     {MonthStart(m) : m \in ObservedMonths(t) \ {First(ObservedMonths(t))}}
                /\ \A m \in ObservedMonths(t) \ {First(ObservedMonths(t))} :
                      monthly_returns[MonthStart(m)][t] =
                          SimpleReturn(LastPrice(t, m),
                                       LastPrice(t, PreviousIn(ObservedMonths(t), m)))

\* Days on which every ticker has a price, and their months.
CommonDays == {d \in DOMAIN data : \A t \in Tickers : data[d][t] # NaN}
CommonMonths == {d[1] : d \in CommonDays}
LastCommonPrice(t, m) == data[MaxDate({d \in CommonDays : d[1] = m})][t]

\* C5 as the code has it: with the days on which every ticker has a price
\* as the observed days, there is one return for every calendar month after
\* the first observed month up to the last one (months observed - 1 when
\* they are contiguous), labelled with the month's first day; a month with
\* an observed day has (p[m] - p[q]) / p[q], p the price on the last
\* observed day and q the previous observed month, a month without one has
\* return 0; fewer than two observed months give no return.
C5_ReturnsFromCommonDays ==
    pc = "read_csv" =>
        /\ ReturnDates =
             IF CommonMonths = {} THEN {}
             ELSE {MonthStart(m) : m \in (First(CommonMonths) + 1) .. Last(CommonMonths)}
        /\ \A d \in ReturnDates, t \in Tickers :
              monthly_returns[d][t] =
                  IF d[1] \in CommonMonths
                  THEN SimpleReturn(LastCommonPrice(t, d[1]),
                                    LastCommonPrice(t, PreviousIn(CommonMonths, d[1])))
                  ELSE Zero
        /\ (CommonMonths # {} /\
            CommonMonths = First(CommonMonths) .. Last(CommonMonths))
              => Cardinality(ReturnDates) = Cardinality(CommonMonths) - 1

C5_Witness ==
    /\ pc = "read_csv"
    /\ Cardinality(ReturnDates) >= 2
    /\ \E t \in Tickers, d \in CommonDays :
          /\ <<d[1], d[2] + 1>> \in DOMAIN data
          /\ data[<<d[1], d[2] + 1>>][t] = NaN
          /\ MonthStart(d[1]) \in ReturnDates
          /\ monthly_returns[MonthStart(d[1])][t] # Zero

\* C6 as stated: a run with an empty Merged Panel never reaches the final
\* success state.
C6_EmptyPanelNeverCompletes == ~(pc = "done" /\ data_merged = <<>>)

\* C6 as the code has it: with an empty Merged Panel nothing raises, the
\* valid-stock list is empty, no regression row and no scatter chart is
\* made, both tables are written without rows, and the run goes on to the
\* final success state.
C6_EmptyPanelCompletes ==
    (pc \in AfterMerge /\ data_merged = <<>>) =>
        /\ err = "none"
        /\ valid_stocks = <<>>
        /\ capm_results = <<>> /\ capm_df = <<>>
        /\ ff_results = <<>> /\ ff_df = <<>>
        /\ jointplots = <<>>
        /\ pc # "done" => ENABLED Next

C6_Witness ==
    /\ pc = "done"
    /\ data_merged = <<>>
    /\ ff # <<>>
    /\ ReturnDates # {}

CapmFields == {"Stock", "Alpha", "Beta_IBEX", "Alpha_t", "Beta_t", "R2"}

\* C7 as stated: every row of both tables has Stock, Alpha, Beta_IBEX,
\* Alpha_t, Beta_t and R2, and the three-factor rows have exactly SMB_coef
\* and HML_coef on top of the CAPM fields.
C7_FF3FieldsExtendCapmFields ==
    /\ \A k \in DOMAIN capm_results : DOMAIN capm_results[k] = CapmFields
    /\ \A k \in DOMAIN ff_results :
          DOMAIN ff_results[k] = CapmFields \cup {"SMB_coef", "HML_coef"}

\* C7 as the code has it: CAPM rows have Stock, Alpha, Beta_IBEX, Alpha_t,
\* Beta_t and R2; three-factor rows have Stock, Alpha, Beta_IBEX, SMB_coef,
\* HML_coef and R2, without Alpha_t and Beta_t.
C7_TableFields ==
    /\ \A k \in DOMAIN capm_results : DOMAIN capm_results[k] = CapmFields
    /\ \A k \in DOMAIN capm_df : DOMAIN capm_df[k] = CapmFields
    /\ \A T \in {ff_results, ff_df} :
          \A k \in DOMAIN T :
              DOMAIN T[k] =
                  (CapmFields \ {"Alpha_t", "Beta_t"}) \cup {"SMB_coef", "HML_coef"}

C7_Witness ==
    /\ pc = "done"
    /\ capm_df # <<>>
    /\ ff_df # <<>>

\* The CAPM case: on at least two rows the index excess return varies and
\* the stock's excess return is twice it on every row.
PanelExcessIbex(d) == Sub(data_merged[d]["IBEX"], data_merged[d]["RF"])
TwiceTheIndex(s) ==
    /\ Cardinality(DOMAIN data_merged) >= 2
    /\ \E d, e \in DOMAIN data_merged : PanelExcessIbex(d) # PanelExcessIbex(e)
    /\ \A d \in DOMAIN data_merged :
          PanelExcess(d, s) = Mul(Rat(2, 1), PanelExcessIbex(d))

\* C8: for a stock whose excess return is exactly twice the index excess
\* return on a panel of two or more rows with varying index excess return,
\* the CAPM row has Beta_IBEX = 2, Alpha = 0 and R2 = 1.
C8_TwiceTheIndexFitsExactly ==
    \A k \in DOMAIN capm_results :
        TwiceTheIndex(capm_results[k].Stock) =>
            /\ capm_results[k].Beta_IBEX = Rat(2, 1)
            /\ capm_results[k].Alpha = Zero
            /\ capm_results[k].R2 = One

C8_Witness ==
    /\ pc = "ff3"
    /\ \E k \in DOMAIN capm_df :
          /\ TwiceTheIndex(capm_df[k].Stock)
          /\ \E d \in DOMAIN data_merged : data_merged[d]["RF"] # Zero
    /\ \E k \in DOMAIN capm_df : ~TwiceTheIndex(capm_df[k].Stock)

BothReturnsExist(d, s) ==
    /\ d \in ReturnDates
    /\ monthly_returns[d][s] # NaN
    /\ monthly_returns[d][index_ticker] # NaN
RawPoint(d, s) ==
    [c \in {s, "IBEX"} |->
        IF c = "IBEX" THEN monthly_returns[d][index_ticker] ELSE monthly_returns[d][s]]

\* C9 as stated: the points of a stock's scatter chart are all the months
\* in which both the stock's and the index's monthly return exist, with
\* the raw returns, inside or outside the factor table's date range.
C9_ChartOfAllReturnMonths ==
    \A k \in DOMAIN jointplots :
        LET s == jointplots[k].stock
        IN  /\ DOMAIN jointplots[k].points = {d \in ReturnDates : BothReturnsExist(d, s)}
            /\ \A d \in DOMAIN jointplots[k].points :
                  jointplots[k].points[d] = RawPoint(d, s)

\* C9 as the code has it: the points are the months inside the factor
\* table's [min, max] date range in which both returns exist, with the raw
\* returns (not the excess returns), whether or not the month is in the
\* Merged Panel.
C9_ChartOfReturnMonthsInFactorRange ==
    \A k \in DOMAIN jointplots :
        LET s == jointplots[k].stock
        IN  /\ DOMAIN jointplots[k].points =
                 {d \in ReturnDates : BothReturnsExist(d, s) /\ InFactorRange(d)}
            /\ \A d \in DOMAIN jointplots[k].points :
                  jointplots[k].points[d] = RawPoint(d, s)

C9_Witness ==
    /\ pc = "done"
    /\ \E k \in DOMAIN jointplots :
          /\ \E d \in DOMAIN jointplots[k].points : d \notin DOMAIN data_merged
          /\ \E d \in DOMAIN jointplots[k].points :
                /\ d \in DOMAIN data_merged
                /\ data_merged[d]["RF"] # Zero
                /\ jointplots[k].points[d]["IBEX"] # PanelExcessIbex(d)

\* C10: the valid-stock list is the whole configured list when the Merged
\* Panel has a row and empty when it has none, never a proper part.
C10_ValidityAllOrNothing ==
    pc \in AfterValid =>
        \/ valid_stocks = stocks /\ data_merged # <<>>
        \/ valid_stocks = <<>> /\ data_merged = <<>>

C10_Witness ==
    /\ pc = "capm"
    /\ valid_stocks = <<>>
    /\ \E t \in Tickers : HasData(t)
    /\ \E t \in Tickers : ~HasData(t)

====
